---------------------------- MODULE Spec2Model ----------------------------
(***************************************************************************)
(* Model of scripts/context_display.py (nvim-hoverfloat): the ContextWindow *)
(* renderer, which turns a context snapshot into cursor-addressed terminal *)
(* writes, and the session made of the control thread (run) and the        *)
(* background listener thread (start_socket_server).                       *)
(*                                                                         *)
(* The terminal is modelled as the grid of the alternate screen buffer:    *)
(* one sequence of cells per row.  A row holds the cells written so far;   *)
(* the columns after its last cell are erased.  A cell is one character of *)
(* the printed text.                                                       *)
(***************************************************************************)
EXTENDS Integers, Sequences, FiniteSets, TLC

Min(a, b) == IF a < b THEN a ELSE b
Max(a, b) == IF a > b THEN a ELSE b

(***************************************************************************)
(* ContextWindow.__init__: the window dimensions and the section rows.     *)
(***************************************************************************)
width == 80
height == 25

\* Faulty variant of sections: the footer on the last row.
sections_FooterOnLastRow ==
    [header |-> 1, file_info |-> 3, hover_start |-> 5, definition |-> 15,
     references |-> 17, footer |-> height]

sections ==
    [header |-> 1, file_info |-> 3, hover_start |-> 5, definition |-> 15,
     references |-> 17, footer |-> height - 1]

\* The layout fields of the window as __init__ sets them.
Layout == [width |-> width, height |-> height, sections |-> sections]

(***************************************************************************)
(* The literal texts the code prints, one cell per character.  Glyphs that *)
(* are not ASCII are written as named cells.                               *)
(***************************************************************************)
HeaderTitle ==
    <<"<mag>", " ", "N", "E", "O", "V", "I", "M", " ", "L", "S", "P", " ", "C",
      "O", "N", "T", "E", "X", "T">>
FileInfoLabel ==
    <<"<page>", " ", "C", "u", "r", "r", "e", "n", "t", " ", "F", "i", "l",
      "e", ":", " ">>
HoverTitle ==
    <<"<book>", " ", "D", "o", "c", "u", "m", "e", "n", "t", "a", "t", "i",
      "o", "n", ":">>
DefinitionLabel ==
    <<"<pin>", " ", "D", "e", "f", "i", "n", "e", "d", " ", "i", "n", ":", " ">>
RefTitleOpen ==
    <<"<link>", " ", "R", "e", "f", "e", "r", "e", "n", "c", "e", "s", " ",
      "(">>
RefTitleClose ==
    <<" ", "f", "o", "u", "n", "d", ")", ":">>
Bullet ==
    <<"<bullet>", " ">>
AndMoreOpen ==
    <<".", ".", ".", " ", "a", "n", "d", " ">>
AndMoreClose ==
    <<" ", "m", "o", "r", "e">>
FooterText ==
    <<" ", "C", "t", "r", "l", "+", "C", " ", "t", "o", " ", "e", "x", "i",
      "t", " ", "<bullet>", " ", "U", "p", "d", "a", "t", "e", "s", " ",
      "a", "u", "t", "o", "m", "a", "t", "i", "c", "a", "l", "l", "y", " ",
      "a", "s", " ", "y", "o", "u", " ", "m", "o", "v", "e", " ", "c", "u",
      "r", "s", "o", "r", " ", "i", "n", " ", "N", "e", "o", "v", "i", "m",
      " ">>
WaitingText ==
    <<"W", "a", "i", "t", "i", "n", "g", " ", "f", "o", "r", " ", "c", "u",
      "r", "s", "o", "r", " ", "m", "o", "v", "e", "m", "e", "n", "t", " ",
      "i", "n", " ", "N", "e", "o", "v", "i", "m", ".", ".", ".">>
Unknown ==
    <<"U", "n", "k", "n", "o", "w", "n">>
WordReference ==
    <<"r", "e", "f", "e", "r", "e", "n", "c", "e">>
WordReferences ==
    <<"r", "e", "f", "e", "r", "e", "n", "c", "e", "s">>
LineOpen ==
    <<" ", "(", "L", "i", "n", "e", " ">>
ColOpen ==
    <<",", " ", "C", "o", "l", " ">>
\* strftime("%H:%M:%S"): eight cells; the clock's value is not modelled.
Timestamp ==
    <<"h", "h", ":", "m", "m", ":", "s", "s">>

Digits == <<"0", "1", "2", "3", "4", "5", "6", "7", "8", "9">>

\* str(n) of a natural number, as the f-strings format it.
RECURSIVE IntToCells(_)
IntToCells(n) ==
    IF n < 10 THEN <<Digits[n + 1]>>
    ELSE IntToCells(n \div 10) \o <<Digits[(n % 10) + 1]>>

\* s * n for a one-cell string s (n <= 0 gives the empty string).
Repeat(c, n) == [i \in 1..Max(n, 0) |-> c]

\* The slice seq[:n] (n >= 0).
Take(seq, n) == SubSeq(seq, 1, Min(Len(seq), Max(n, 0)))

IsBlank(line) == \A i \in 1..Len(line) : line[i] = " "

(***************************************************************************)
(* What the program prints is a stream of commands to the terminal: text,  *)
(* and the escape sequences of ANSIControl and NeovimColors.               *)
(***************************************************************************)
Cmd(op, row, col, cells) == [op |-> op, row |-> row, col |-> col, cells |-> cells]

Text(cells) == Cmd("text", 0, 0, cells)
cursor_to(row, col) == Cmd("cursor_to", row, col, <<>>)
clear_screen == Cmd("clear_screen", 0, 0, <<>>)
\* ESC[K and ESC[0K are the same erase: from the cursor to the end of the row.
clear_line == Cmd("erase_to_eol", 0, 0, <<>>)
clear_line_from_cursor == Cmd("erase_to_eol", 0, 0, <<>>)
save_cursor == Cmd("save_cursor", 0, 0, <<>>)
restore_cursor == Cmd("restore_cursor", 0, 0, <<>>)
hide_cursor == Cmd("hide_cursor", 0, 0, <<>>)
show_cursor == Cmd("show_cursor", 0, 0, <<>>)
alternate_screen == Cmd("alternate_screen", 0, 0, <<>>)
normal_screen == Cmd("normal_screen", 0, 0, <<>>)
\* Any colour or attribute code of NeovimColors but RESET, and RESET.
Color == Cmd("color", 0, 0, <<>>)
RESET == Cmd("reset", 0, 0, <<>>)

(***************************************************************************)
(* The terminal.  grid is the alternate screen buffer; row, col the cursor;*)
(* saved the cursor position save_cursor stored; sgr the styling state;    *)
(* alt and cursor_hidden the two private modes that make up managed mode.  *)
(* Output that arrives while the normal buffer is shown does not reach     *)
(* grid: it marks the user's own screen (normal_dirty).                    *)
(***************************************************************************)
BlankGrid == [r \in 1..height |-> <<>>]

FreshTerminal ==
    [grid |-> BlankGrid, row |-> 1, col |-> 1, saved |-> <<1, 1>>,
     sgr |-> "default", alt |-> FALSE, cursor_hidden |-> FALSE,
     normal_dirty |-> FALSE]

\* Text at the cursor: the cells overwrite the row from the cursor on and the
\* cursor advances; past the last column the text continues on the next row
\* (autowrap).  Text past the last row is dropped (no input of the model
\* reaches it).
RECURSIVE Write(_, _)
Write(t, text) ==
    IF text = <<>> THEN t
    ELSE IF ~t.alt THEN [t EXCEPT !.normal_dirty = TRUE]
    ELSE IF t.row > height THEN t
    ELSE IF t.col > width
         THEN Write([t EXCEPT !.row = t.row + 1, !.col = 1], text)
    ELSE LET n      == Min(Len(text), width - t.col + 1)
             line   == t.grid[t.row]
             before == IF Len(line) >= t.col - 1
                       THEN SubSeq(line, 1, t.col - 1)
                       ELSE line \o Repeat(" ", t.col - 1 - Len(line))
             after  == SubSeq(line, t.col + n, Len(line))
             t2     == [t EXCEPT !.grid[t.row] = before \o SubSeq(text, 1, n) \o after,
                                 !.col = t.col + n]
         IN  Write(t2, SubSeq(text, n + 1, Len(text)))

EraseToEol(t) ==
    IF ~t.alt THEN [t EXCEPT !.normal_dirty = TRUE]
    ELSE IF t.row > height THEN t
    ELSE [t EXCEPT !.grid[t.row] = Take(@, t.col - 1)]

\* The terminal's reaction to one command.
Step(t, c) ==
    CASE c.op = "text" -> Write(t, c.cells)
      [] c.op = "cursor_to" -> [t EXCEPT !.row = c.row, !.col = c.col]
      [] c.op = "erase_to_eol" -> EraseToEol(t)
      [] c.op = "clear_screen" ->
            IF t.alt THEN [t EXCEPT !.grid = BlankGrid]
            ELSE [t EXCEPT !.normal_dirty = TRUE]
      [] c.op = "save_cursor" -> [t EXCEPT !.saved = <<t.row, t.col>>]
      [] c.op = "restore_cursor" -> [t EXCEPT !.row = t.saved[1], !.col = t.saved[2]]
      [] c.op = "hide_cursor" -> [t EXCEPT !.cursor_hidden = TRUE]
      [] c.op = "show_cursor" -> [t EXCEPT !.cursor_hidden = FALSE]
      [] c.op = "alternate_screen" -> [t EXCEPT !.alt = TRUE, !.grid = BlankGrid]
      [] c.op = "normal_screen" -> [t EXCEPT !.alt = FALSE]
      [] c.op = "color" -> [t EXCEPT !.sgr = "styled"]
      [] c.op = "reset" -> [t EXCEPT !.sgr = "default"]

\* The terminal after the commands out[lo..hi], applied in order: t2 is the
\* terminal after the first half, to which the second half is applied.
RECURSIVE FeedRange(_, _, _, _)
FeedRange(t, out, lo, hi) ==
    IF lo > hi THEN t
    ELSE IF lo = hi THEN Step(t, out[lo])
    ELSE LET mid == (lo + hi) \div 2
         IN  CHOOSE r \in {FeedRange(t2, out, mid + 1, hi) :
                              t2 \in {FeedRange(t, out, lo, mid)}} : TRUE

Feed(t, out) == FeedRange(t, out, 1, Len(out))

(***************************************************************************)
(* A context snapshot (the "data" object of a context_update message).  A  *)
(* key of the dictionary that may be missing has a has_ flag; a missing    *)
(* key's value is the empty sequence or 0.  A definition is a dictionary   *)
(* too: nonempty is its truth value.  is_object is FALSE for a "data"      *)
(* value that is not a JSON object (null, a list, a number).               *)
(***************************************************************************)
EmptySnapshot ==
    [is_object |-> TRUE, has_file |-> FALSE, file |-> <<>>, line |-> 0, col |-> 0,
     has_hover |-> FALSE, hover |-> <<>>,
     has_definition |-> FALSE,
     definition |-> [nonempty |-> FALSE, file |-> <<>>, line |-> 0, col |-> 0],
     has_references |-> FALSE, references |-> <<>>,
     has_references_count |-> FALSE, references_count |-> 0]

(***************************************************************************)
(* The methods of ContextWindow that print: each is the stream of commands *)
(* it prints, in order.                                                    *)
(***************************************************************************)
setup_terminal == <<alternate_screen, hide_cursor, clear_screen, Color>>

\* Faulty variant of cleanup_terminal: the normal screen buffer is not restored.
cleanup_terminal_KeepsAlternate == <<show_cursor, RESET>>

cleanup_terminal == <<show_cursor, normal_screen, RESET>>

draw_border(row, w) ==
    <<cursor_to(row, 1), Color,
      Text(<<"<lt>">> \o Repeat("<hz>", w - 2) \o <<"<rt>">>), RESET>>

draw_header ==
    LET spaces_needed == width - 22 - Len(Timestamp) - 1
    IN  <<cursor_to(sections.header, 1), Color, Text(HeaderTitle),
          Text(Repeat(" ", spaces_needed)),
          Color, Text(<<"[">> \o Timestamp \o <<"]">>), RESET>>
        \o draw_border(sections.header + 1, width)

draw_file_info(data) ==
    LET file_name == IF data.has_file THEN data.file ELSE Unknown
    IN  <<cursor_to(sections.file_info, 1), Color,
          Color, Text(FileInfoLabel),
          Color, Text(file_name),
          Color, Text(LineOpen \o IntToCells(data.line) \o ColOpen
                      \o IntToCells(data.col) \o <<")">>),
          clear_line_from_cursor, RESET>>

\* Faulty variant of HoverContent: the line is printed whole, not cut to width - 4.
RECURSIVE HoverContent_NoCut(_, _, _)
HoverContent_NoCut(shown, start_row, i) ==
    IF i >= Len(shown) THEN <<>>
    ELSE <<cursor_to(start_row + 1 + i, 3), Color,
           Text(shown[i + 1]),
           clear_line_from_cursor, RESET>>
         \o HoverContent_NoCut(shown, start_row, i + 1)

\* The first loop of draw_hover_info, from index i (0-based, as enumerate
\* counts) of shown = hover_data[:max_lines]: the line, cut to width - 4
\* cells, at column 3 of row start_row + 1 + i.
RECURSIVE HoverContent(_, _, _)
HoverContent(shown, start_row, i) ==
    IF i >= Len(shown) THEN <<>>
    ELSE <<cursor_to(start_row + 1 + i, 3), Color,
           Text(Take(shown[i + 1], width - 4)),
           clear_line_from_cursor, RESET>>
         \o HoverContent(shown, start_row, i + 1)

\* for i in range(lo, hi): cursor to (first + i, 1) and erase the row.  This
\* is the second loop of draw_hover_info (first = start_row + 1) and the
\* hover clear of update_display (first = 0).
RECURSIVE ClearLoop(_, _, _)
ClearLoop(first, i, hi) ==
    IF i >= hi THEN <<>>
    ELSE <<cursor_to(first + i, 1), Color, clear_line, RESET>>
         \o ClearLoop(first, i + 1, hi)

\* Faulty variant of draw_hover_info: the rows after the shown lines are not
\* erased.
draw_hover_info_NoClearLoop(hover_data) ==
    LET start_row == sections.hover_start
        max_lines == sections.definition - start_row - 2
    IN  <<cursor_to(start_row, 1), Color, Text(HoverTitle),
          clear_line_from_cursor, RESET>>
        \o HoverContent(Take(hover_data, max_lines), start_row, 0)

draw_hover_info(hover_data) ==
    LET start_row == sections.hover_start
        max_lines == sections.definition - start_row - 2
    IN  <<cursor_to(start_row, 1), Color, Text(HoverTitle),
          clear_line_from_cursor, RESET>>
        \o HoverContent(Take(hover_data, max_lines), start_row, 0)
        \o ClearLoop(start_row + 1, Len(hover_data), max_lines)

draw_definition_info(definition) ==
    IF ~definition.nonempty THEN <<>>
    ELSE <<cursor_to(sections.definition, 1), Color, Text(DefinitionLabel),
           Color, Text(definition.file \o <<":">> \o IntToCells(definition.line)
                       \o <<":">> \o IntToCells(definition.col)),
           clear_line_from_cursor, RESET>>

\* The loop of draw_references_info, from index i of shown =
\* references[:max_lines].
RECURSIVE RefEntries(_, _, _)
RefEntries(shown, start_row, i) ==
    IF i >= Len(shown) THEN <<>>
    ELSE <<cursor_to(start_row + 1 + i, 3), Color, Text(Bullet),
           Text(shown[i + 1].file \o <<":">> \o IntToCells(shown[i + 1].line)),
           clear_line_from_cursor, RESET>>
         \o RefEntries(shown, start_row, i + 1)

\* The title line of draw_references_info.
RefTitle(count) ==
    LET ref_text == IF count = 1 THEN WordReference ELSE WordReferences
    IN  RefTitleOpen \o IntToCells(count) \o <<" ">> \o ref_text \o RefTitleClose

\* The "... and N more" line of draw_references_info.
AndMore(remaining) == AndMoreOpen \o IntToCells(remaining) \o AndMoreClose

draw_references_info(references, count) ==
    LET start_row == sections.references
        max_lines == sections.footer - start_row - 2
    IN  <<cursor_to(start_row, 1), Color, Text(RefTitle(count)),
          clear_line_from_cursor, RESET>>
        \o RefEntries(Take(references, max_lines), start_row, 0)
        \o IF Len(references) > max_lines
           THEN <<cursor_to(start_row + max_lines + 1, 3), Color,
                  Text(AndMore(Len(references) - max_lines)),
                  clear_line_from_cursor, RESET>>
           ELSE <<>>

draw_footer ==
    LET padding == (width - Len(FooterText)) \div 2
    IN  <<cursor_to(sections.footer, 1), Color,
          Text(Repeat(" ", padding) \o FooterText \o Repeat(" ", padding)),
          RESET>>

show_waiting_message ==
    LET center_col == (width - 40) \div 2
    IN  <<cursor_to(height \div 2, 1), cursor_to(height \div 2, center_col),
          Color, Text(WaitingText), RESET>>

\* Faulty variant of UpdateHover: the clear starts one row late and leaves the title
\* row alone.
UpdateHover_KeepsTitle(data) ==
    IF data.has_hover /\ data.hover # <<>>
    THEN draw_hover_info(data.hover)
    ELSE ClearLoop(0, sections.hover_start + 1, sections.definition)

\* update_display, "if 'hover' in data and data['hover'] ... else": draw the
\* hover section, or erase the rows hover_start .. definition - 1.
UpdateHover(data) ==
    IF data.has_hover /\ data.hover # <<>>
    THEN draw_hover_info(data.hover)
    ELSE ClearLoop(0, sections.hover_start, sections.definition)

\* update_display, "if 'definition' in data".
UpdateDefinition(data) ==
    IF data.has_definition THEN draw_definition_info(data.definition) ELSE <<>>

\* Faulty variant of RefCount: the count is always the number of references.
RefCount_IgnoresField(data) == Len(data.references)

\* data.get('references_count', len(data['references']))
RefCount(data) ==
    IF data.has_references_count THEN data.references_count
    ELSE Len(data.references)

\* update_display, "if 'references' in data".
UpdateReferences(data) ==
    IF data.has_references
    THEN draw_references_info(data.references, RefCount(data))
    ELSE <<>>

\* Everything update_display prints for a snapshot, up to its flush.
update_display(data) ==
    <<save_cursor>> \o draw_header \o draw_file_info(data) \o UpdateHover(data)
    \o UpdateDefinition(data) \o UpdateReferences(data) \o draw_footer
    \o <<restore_cursor>>

(***************************************************************************)
(* Bounds of the model and the inputs drawn within them.                   *)
(***************************************************************************)
MaxLineLen == 78
MaxHoverLines == 9
MaxRefs == 7
MaxCount == 2
MaxPasses == 2
MaxPathLen == 70

Alphabet ==
    <<"a", "b", "c", "d", "e", "f", "g", "h", "i", "j", "k", "l", "m", "n",
      "o", "p", "q", "r", "s", "t", "u", "v", "w", "x", "y", "z">>

\* A text of n cells whose cells differ from their neighbours.
TextLine(n) == [i \in 1..n |-> Alphabet[((i - 1) % 26) + 1]]

\* The k-th line of a hover text: short lines, a line that exactly fits the
\* width - 4 columns, and lines longer than that.
HoverLine(k) ==
    IF k = 2 THEN TextLine(width - 4)
    ELSE IF k = 3 THEN TextLine(width - 3)
    ELSE IF k = 4 THEN TextLine(MaxLineLen)
    ELSE TextLine(k + 2)

HoverText(n) == [k \in 1..n |-> HoverLine(k)]
HoverLengths == {0, 1, 4, 8, MaxHoverLines}

FileA == <<"a", ".", "g", "o">>
FileB == <<"b", ".", "g", "o">>

Ref(k) == [file |-> FileB, line |-> 5 * k]
RefList(n) == [k \in 1..n |-> Ref(k)]
RefLengths == {0, 1, 5, 6, MaxRefs}

DefinitionA == [nonempty |-> TRUE, file |-> FileA, line |-> 2, col |-> 1]

\* A path of MaxPathLen cells, as absolute paths of language servers are, and
\* a definition, a reference and a current file at such a path.
LongFile == TextLine(MaxPathLen)
DefinitionLong == [DefinitionA EXCEPT !.file = LongFile]
RefLong == [file |-> LongFile, line |-> 7]
EmptyDefinition == EmptySnapshot.definition

BaseSnapshot ==
    [EmptySnapshot EXCEPT !.has_file = TRUE, !.file = FileA, !.line = 10, !.col = 4]

WithHover(d, n) == [d EXCEPT !.has_hover = TRUE, !.hover = HoverText(n)]
WithReferences(d, n) == [d EXCEPT !.has_references = TRUE, !.references = RefList(n)]
WithCount(d, c) == [d EXCEPT !.has_references_count = TRUE, !.references_count = c]
WithDefinition(d, def) == [d EXCEPT !.has_definition = TRUE, !.definition = def]

\* Snapshots that vary the hover field, and snapshots that vary the
\* references and references_count fields.
HoverSnapshots ==
    {BaseSnapshot} \cup {WithHover(BaseSnapshot, n) : n \in HoverLengths}
ReferenceSnapshots ==
    LET d0 == WithDefinition(WithHover(BaseSnapshot, 1), DefinitionA)
        withRefs == {WithReferences(d0, n) : n \in RefLengths}
    IN  withRefs \cup {WithCount(d, c) : d \in withRefs, c \in 0..MaxCount}
        \cup {WithCount(d0, 1), WithDefinition(BaseSnapshot, EmptyDefinition)}
LongPathSnapshots ==
    {WithDefinition(BaseSnapshot, DefinitionLong),
     [BaseSnapshot EXCEPT !.has_references = TRUE, !.references = <<RefLong>>],
     [BaseSnapshot EXCEPT !.file = LongFile]}
RenderSnapshots == HoverSnapshots \cup ReferenceSnapshots \cup LongPathSnapshots

(***************************************************************************)
(* The state of the program.                                               *)
(*   term          the terminal                                            *)
(*   current_data  self.current_data                                       *)
(*   running       self.running                                            *)
(*   socket        self.socket: "None", or the state of the socket object  *)
(*   path_exists   whether a file exists at self.socket_path               *)
(*   mpc, pending  the control thread's position in run(), and the         *)
(*                 exception it is unwinding with                          *)
(*   exit_code     how the process ended                                   *)
(*   lpc           the listener thread's position in start_socket_server   *)
(*   conn          the accepted connection                                 *)
(*   chunk         the chunk recv returned, while it is being handled      *)
(*   stdout        what has been printed and not yet flushed               *)
(*   received      history: the chunks recv has returned, in order         *)
(*   passes        history: the data of every completed update_display     *)
(*   layout        self.width, self.height, self.sections                  *)
(***************************************************************************)
VARIABLES term, stdout, current_data, running, socket, path_exists, mpc,
          pending, exit_code, lpc, conn, chunk, received, passes, layout

vars == <<term, stdout, current_data, running, socket, path_exists, mpc,
          pending, exit_code, lpc, conn, chunk, received, passes, layout>>

\* The terminal as run() leaves it before the listener starts.
StartupTerminal ==
    Feed(FreshTerminal,
         setup_terminal \o draw_header \o draw_footer \o show_waiting_message)

NoChunk ==
    [kind |-> "none", is_object |-> FALSE, has_type |-> FALSE, type |-> "",
     has_data |-> FALSE, data |-> EmptySnapshot]

(***************************************************************************)
(* The renderer alone: a started session whose listener receives           *)
(* context_update messages and renders each with update_display (lines     *)
(* 316-318), one whole pass per step.                                      *)
(***************************************************************************)
RenderInit ==
    /\ term = StartupTerminal
    /\ stdout = <<>>
    /\ current_data = EmptySnapshot
    /\ running = TRUE
    /\ socket = "listening"
    /\ path_exists = TRUE
    /\ mpc = "idle"
    /\ pending = "none"
    /\ exit_code = "none"
    /\ lpc = "recv"
    /\ conn = "open"
    /\ chunk = NoChunk
    /\ received = <<>>
    /\ passes = <<>>
    /\ layout = Layout

Render(d) ==
    /\ Len(passes) < MaxPasses
    /\ current_data' = d
    /\ term' = Feed(term, update_display(d))
    /\ passes' = Append(passes, d)
    /\ UNCHANGED <<stdout, running, socket, path_exists, mpc, pending,
                   exit_code, lpc, conn, chunk, received>>
    /\ UNCHANGED layout

RenderNext == \E d \in RenderSnapshots : Render(d)

RenderSpec == RenderInit /\ [][RenderNext]_vars

(***************************************************************************)
(* The session: the control thread (run) and the listener thread           *)
(* (start_socket_server), one action per statement.                        *)
(***************************************************************************)
MaxMsgs == 2

\* What conn.recv returns.  kind is "empty" (the peer closed), "bad_utf8"
\* (bytes that are no UTF-8 text), "not_json" (text that is no JSON
\* document) or "json"; a JSON document is an object or not, and an object
\* has a type and a data key or not.
Chunk(kind, is_object, has_type, type, has_data, data) ==
    [kind |-> kind, is_object |-> is_object, has_type |-> has_type,
     type |-> type, has_data |-> has_data, data |-> data]

SnapshotA ==
    WithCount(WithReferences(WithDefinition(WithHover(BaseSnapshot, 1),
                                            DefinitionA), 1), 1)
SnapshotB == WithReferences(BaseSnapshot, 6)
\* "data": null
NotAnObject == [EmptySnapshot EXCEPT !.is_object = FALSE]

ContextUpdate(d) == Chunk("json", TRUE, TRUE, "context_update", TRUE, d)

Chunks ==
    {Chunk("bad_utf8", FALSE, FALSE, "", FALSE, EmptySnapshot),
     Chunk("not_json", FALSE, FALSE, "", FALSE, EmptySnapshot),
     Chunk("json", FALSE, FALSE, "", FALSE, EmptySnapshot),
     Chunk("json", TRUE, FALSE, "", TRUE, SnapshotA),
     Chunk("json", TRUE, TRUE, "other", TRUE, SnapshotA),
     Chunk("json", TRUE, TRUE, "context_update", FALSE, EmptySnapshot),
     ContextUpdate(NotAnObject), ContextUpdate(SnapshotA), ContextUpdate(SnapshotB)}

Init ==
    /\ term = FreshTerminal
    /\ stdout = <<>>
    /\ current_data = EmptySnapshot
    /\ running = FALSE
    /\ socket = "None"
    /\ path_exists \in BOOLEAN
    /\ mpc = "setup_terminal"
    /\ pending = "none"
    /\ exit_code = "none"
    /\ lpc = "not_started"
    /\ conn = "none"
    /\ chunk = NoChunk
    /\ received = <<>>
    /\ passes = <<>>
    /\ layout = Layout

session == <<current_data, running, socket, path_exists, lpc, conn, chunk,
             received, passes>>

\* ---- run(), the try block ----

\* A statement of run() that prints out, and flushes when flush is TRUE.
MainPrints(at, out, flush, next) ==
    /\ mpc = at
    /\ IF flush
       THEN term' = Feed(term, stdout \o out) /\ stdout' = <<>>
       ELSE term' = term /\ stdout' = stdout \o out
    /\ mpc' = next
    /\ UNCHANGED <<pending, exit_code>>
    /\ UNCHANGED session
    /\ UNCHANGED layout

MSetupTerminal == MainPrints("setup_terminal", setup_terminal, TRUE, "draw_header")
MDrawHeader == MainPrints("draw_header", draw_header, FALSE, "draw_footer")
MDrawFooter == MainPrints("draw_footer", draw_footer, FALSE, "show_waiting_message")
MShowWaiting ==
    MainPrints("show_waiting_message", show_waiting_message, TRUE, "set_running")

MSetRunning ==
    /\ mpc = "set_running"
    /\ running' = TRUE
    /\ mpc' = "start_thread"
    /\ UNCHANGED <<term, stdout, current_data, socket, path_exists, pending,
                   exit_code, lpc, conn, chunk, received, passes>>
    /\ UNCHANGED layout

MStartThread ==
    /\ mpc = "start_thread"
    /\ lpc' = "unlink"
    /\ mpc' = "idle"
    /\ UNCHANGED <<term, stdout, current_data, running, socket, path_exists,
                   pending, exit_code, conn, chunk, received, passes>>
    /\ UNCHANGED layout

\* while self.running: time.sleep(0.1)
MIdle ==
    /\ mpc = "idle"
    /\ mpc' = IF running THEN "idle" ELSE "finally_running"
    /\ UNCHANGED <<term, stdout, pending, exit_code>>
    /\ UNCHANGED session
    /\ UNCHANGED layout

TrySteps ==
    {"setup_terminal", "draw_header", "draw_footer", "show_waiting_message",
     "set_running", "start_thread", "idle"}

\* KeyboardInterrupt: caught in the idle loop (lines 345-346), and unwinding
\* through the finally block anywhere else in the try block.
MInterrupt ==
    /\ mpc \in TrySteps
    /\ pending' = IF mpc = "idle" THEN "none" ELSE "KeyboardInterrupt"
    /\ mpc' = "finally_running"
    /\ UNCHANGED <<term, stdout, exit_code>>
    /\ UNCHANGED session
    /\ UNCHANGED layout

\* The statement at mpc raises an exception.
MError ==
    /\ mpc \in TrySteps \ {"set_running"}
    /\ pending' = "Exception"
    /\ mpc' = "finally_running"
    /\ UNCHANGED <<term, stdout, exit_code>>
    /\ UNCHANGED session
    /\ UNCHANGED layout

\* ---- run(), the finally block ----

MFinallyRunning ==
    /\ mpc = "finally_running"
    /\ running' = FALSE
    /\ mpc' = "finally_cleanup"
    /\ UNCHANGED <<term, stdout, current_data, socket, path_exists, pending,
                   exit_code, lpc, conn, chunk, received, passes>>
    /\ UNCHANGED layout

MFinallyCleanup ==
    MainPrints("finally_cleanup", cleanup_terminal, TRUE, "finally_close")

\* if self.socket: self.socket.close()
MFinallyClose ==
    /\ mpc = "finally_close"
    /\ socket' = IF socket = "None" THEN "None" ELSE "closed"
    /\ mpc' = "finally_unlink"
    /\ UNCHANGED <<term, stdout, current_data, running, path_exists, pending,
                   exit_code, lpc, conn, chunk, received, passes>>
    /\ UNCHANGED layout

\* os.unlink(self.socket_path), OSError ignored
MFinallyUnlink ==
    /\ mpc = "finally_unlink"
    /\ path_exists' = FALSE
    /\ mpc' = "returned"
    /\ UNCHANGED <<term, stdout, current_data, running, socket, pending,
                   exit_code, lpc, conn, chunk, received, passes>>
    /\ UNCHANGED layout

\* main(): run() has returned or raised; the process exits, which flushes
\* stdout and ends the daemon thread wherever it is.
MExit ==
    /\ mpc = "returned"
    /\ mpc' = "exited"
    /\ exit_code' = CASE pending = "none" -> "0"
                      [] pending = "Exception" -> "1"
                      [] pending = "KeyboardInterrupt" -> "KeyboardInterrupt"
    /\ term' = Feed(term, stdout)
    /\ stdout' = <<>>
    /\ UNCHANGED pending
    /\ UNCHANGED session
    /\ UNCHANGED layout

\* ---- start_socket_server(), in the daemon thread ----

main == <<mpc, pending, exit_code>>
Alive == mpc # "exited"

\* os.unlink(self.socket_path), OSError ignored
LUnlink ==
    /\ Alive /\ lpc = "unlink"
    /\ path_exists' = FALSE
    /\ lpc' = "socket"
    /\ UNCHANGED <<term, stdout, current_data, running, socket, conn, chunk,
                   received, passes>>
    /\ UNCHANGED main
    /\ UNCHANGED layout

\* self.socket = socket.socket(AF_UNIX, SOCK_STREAM)
LSocket ==
    /\ Alive /\ lpc = "socket"
    /\ socket' = "open"
    /\ lpc' = "bind"
    /\ UNCHANGED <<term, stdout, current_data, running, path_exists, conn,
                   chunk, received, passes>>
    /\ UNCHANGED main
    /\ UNCHANGED layout

\* self.socket.bind(self.socket_path): creates the file.  On a socket that
\* was closed meanwhile, or when the address cannot be bound, bind raises
\* OSError, which nothing in the thread catches.
LBind ==
    /\ Alive /\ lpc = "bind"
    /\ \/ /\ socket = "open"
          /\ socket' = "bound" /\ path_exists' = TRUE /\ lpc' = "listen"
       \/ /\ lpc' = "crashed"
          /\ UNCHANGED <<socket, path_exists>>
    /\ UNCHANGED <<term, stdout, current_data, running, conn, chunk, received,
                   passes>>
    /\ UNCHANGED main
    /\ UNCHANGED layout

\* self.socket.listen(1)
LListen ==
    /\ Alive /\ lpc = "listen"
    /\ IF socket = "bound"
       THEN socket' = "listening" /\ lpc' = "while_running"
       ELSE socket' = socket /\ lpc' = "crashed"
    /\ UNCHANGED <<term, stdout, current_data, running, path_exists, conn,
                   chunk, received, passes>>
    /\ UNCHANGED main
    /\ UNCHANGED layout

\* while self.running:  (line 304)
LWhileRunning ==
    /\ Alive /\ lpc = "while_running"
    /\ lpc' = IF running THEN "accept" ELSE "returned"
    /\ UNCHANGED <<term, stdout, current_data, running, socket, path_exists,
                   conn, chunk, received, passes>>
    /\ UNCHANGED main
    /\ UNCHANGED layout

\* conn, addr = self.socket.accept(): a peer connects.
LAccept ==
    /\ Alive /\ lpc = "accept"
    /\ socket = "listening"
    /\ conn' = "open"
    /\ lpc' = "while_conn"
    /\ UNCHANGED <<term, stdout, current_data, running, socket, path_exists,
                   chunk, received, passes>>
    /\ UNCHANGED main
    /\ UNCHANGED layout

\* accept or recv raises OSError: "except OSError: ... break" (lines 322-325);
\* leaving the with block closes the connection.
LTransportError ==
    /\ Alive /\ lpc \in {"accept", "recv"}
    /\ conn' = IF conn = "open" THEN "closed" ELSE conn
    /\ lpc' = "returned"
    /\ UNCHANGED <<term, stdout, current_data, running, socket, path_exists,
                   chunk, received, passes>>
    /\ UNCHANGED main
    /\ UNCHANGED layout

\* while self.running:  (line 308)
LWhileConn ==
    /\ Alive /\ lpc = "while_conn"
    /\ IF running
       THEN lpc' = "recv" /\ conn' = conn
       ELSE lpc' = "while_running" /\ conn' = "closed"
    /\ UNCHANGED <<term, stdout, current_data, running, socket, path_exists,
                   chunk, received, passes>>
    /\ UNCHANGED main
    /\ UNCHANGED layout

\* b'': what recv returns when the peer has closed the connection.
EmptyChunk == Chunk("empty", FALSE, FALSE, "", FALSE, EmptySnapshot)

\* Faulty variant of LRecvEmpty: the empty read ends the listener loop.
LRecvEmpty_EndsListener ==
    /\ Alive /\ lpc = "recv"
    /\ Len(received) < MaxMsgs
    /\ received' = Append(received, EmptyChunk)
    /\ conn' = "closed"
    /\ lpc' = "returned"
    /\ UNCHANGED <<term, stdout, current_data, running, socket, path_exists,
                   chunk, passes>>
    /\ UNCHANGED main
    /\ UNCHANGED layout

\* data = conn.recv(4096); if not data: break.  Leaving the with block
\* closes the connection.
LRecvEmpty ==
    /\ Alive /\ lpc = "recv"
    /\ Len(received) < MaxMsgs
    /\ received' = Append(received, EmptyChunk)
    /\ conn' = "closed"
    /\ lpc' = "while_running"
    /\ UNCHANGED <<term, stdout, current_data, running, socket, path_exists,
                   chunk, passes>>
    /\ UNCHANGED main
    /\ UNCHANGED layout

LRecv(c) ==
    /\ Alive /\ lpc = "recv"
    /\ Len(received) < MaxMsgs
    /\ chunk' = c
    /\ received' = Append(received, c)
    /\ lpc' = "handle"
    /\ UNCHANGED <<term, stdout, current_data, running, socket, path_exists,
                   conn, passes>>
    /\ UNCHANGED main
    /\ UNCHANGED layout

\* Faulty variant of Decode: a message without a type counts as a context_update.
Decode_DefaultType(c) ==
    IF c.kind = "bad_utf8" THEN "UnicodeDecodeError"
    ELSE IF c.kind = "not_json" THEN "JSONDecodeError"
    ELSE IF ~c.is_object THEN "AttributeError"
    ELSE IF ~c.has_type \/ c.type = "context_update" THEN "context_update"
    ELSE "other"

\* Lines 315-316: what json.loads(data.decode('utf-8')) and message.get('type')
\* come to: the exception raised, or whether the message is a context_update.
Decode(c) ==
    IF c.kind = "bad_utf8" THEN "UnicodeDecodeError"
    ELSE IF c.kind = "not_json" THEN "JSONDecodeError"
    ELSE IF ~c.is_object THEN "AttributeError"
    ELSE IF c.has_type /\ c.type = "context_update" THEN "context_update"
    ELSE "other"

\* Faulty variant of Caught: no except clause catches the decoding error.
Caught_Nothing(outcome) == FALSE

\* except json.JSONDecodeError (line 319); except OSError (line 322)
Caught(outcome) == outcome = "JSONDecodeError"

\* Faulty variant of NewData: the new snapshot is merged into the held one, which
\* keeps its hover text when the new one has none.
NewData_Merged(old, c) ==
    LET new == IF c.has_data THEN c.data ELSE EmptySnapshot
    IN  IF new.has_hover THEN new
        ELSE [new EXCEPT !.has_hover = old.has_hover, !.hover = old.hover]

\* message.get('data', {})
NewData(old, c) == IF c.has_data THEN c.data ELSE EmptySnapshot

\* Lines 313-320 up to the call of update_display.
LHandle ==
    /\ Alive /\ lpc = "handle"
    /\ LET outcome == Decode(chunk)
       IN  IF outcome = "context_update"
           THEN /\ current_data' = NewData(current_data, chunk)
                /\ lpc' = "save_cursor"
                /\ UNCHANGED <<conn, chunk>>
           ELSE IF outcome = "other" \/ Caught(outcome)
           THEN /\ lpc' = "while_conn"
                /\ chunk' = NoChunk
                /\ UNCHANGED <<current_data, conn>>
           ELSE /\ lpc' = "crashed"
                /\ conn' = "closed"
                /\ chunk' = NoChunk
                /\ UNCHANGED current_data
    /\ UNCHANGED <<term, stdout, running, socket, path_exists, received, passes>>
    /\ UNCHANGED main
    /\ UNCHANGED layout

\* Faulty variant of UpdateSteps: the footer is drawn before the file info.
UpdateSteps_FooterEarly ==
    <<"save_cursor", "draw_header", "draw_footer", "draw_file_info", "hover",
      "definition", "references", "restore_cursor", "flush">>

\* update_display(self.current_data), statement by statement.
UpdateSteps ==
    <<"save_cursor", "draw_header", "draw_file_info", "hover", "definition",
      "references", "draw_footer", "restore_cursor", "flush">>

StepIndex(pc) == CHOOSE i \in 1..Len(UpdateSteps) : UpdateSteps[i] = pc

\* What the statement at pc prints.
StepOutput(pc, data) ==
    CASE pc = "save_cursor" -> <<save_cursor>>
      [] pc = "draw_header" -> draw_header
      [] pc = "draw_file_info" -> draw_file_info(data)
      [] pc = "hover" -> UpdateHover(data)
      [] pc = "definition" -> UpdateDefinition(data)
      [] pc = "references" -> UpdateReferences(data)
      [] pc = "draw_footer" -> draw_footer
      [] pc = "restore_cursor" -> <<restore_cursor>>

\* A statement of update_display that prints.  draw_file_info is the first
\* to read data: data.get raises AttributeError when data is no dictionary.
LDraw ==
    /\ Alive /\ lpc \in {UpdateSteps[i] : i \in 1..(Len(UpdateSteps) - 1)}
    /\ IF lpc = "draw_file_info" /\ ~current_data.is_object
       THEN /\ lpc' = "crashed"
            /\ conn' = "closed"
            /\ chunk' = NoChunk
            /\ stdout' = stdout
       ELSE /\ stdout' = stdout \o StepOutput(lpc, current_data)
            /\ lpc' = UpdateSteps[StepIndex(lpc) + 1]
            /\ UNCHANGED <<conn, chunk>>
    /\ UNCHANGED <<term, current_data, running, socket, path_exists, received,
                   passes>>
    /\ UNCHANGED main
    /\ UNCHANGED layout

\* sys.stdout.flush() at the end of update_display; back to line 308.
LFlush ==
    /\ Alive /\ lpc = "flush"
    /\ term' = Feed(term, stdout)
    /\ stdout' = <<>>
    /\ passes' = Append(passes, current_data)
    /\ chunk' = NoChunk
    /\ lpc' = "while_conn"
    /\ UNCHANGED <<current_data, running, socket, path_exists, conn, received>>
    /\ UNCHANGED main
    /\ UNCHANGED layout

Next ==
    \/ MSetupTerminal \/ MDrawHeader \/ MDrawFooter \/ MShowWaiting
    \/ MSetRunning \/ MStartThread \/ MIdle \/ MInterrupt \/ MError
    \/ MFinallyRunning \/ MFinallyCleanup \/ MFinallyClose \/ MFinallyUnlink
    \/ MExit
    \/ LUnlink \/ LSocket \/ LBind \/ LListen \/ LWhileRunning \/ LAccept
    \/ LTransportError \/ LWhileConn \/ LRecvEmpty
    \/ (\E c \in Chunks : LRecv(c))
    \/ LHandle \/ LDraw \/ LFlush

Spec == Init /\ [][Next]_vars

\* The steps each thread takes by itself once it is scheduled.  What the
\* outside decides is not among them: an interrupt or an exception in run()
\* (MInterrupt, MError), and what the peer and the transport do (LAccept,
\* LRecv, LRecvEmpty, LTransportError).
MainProgress ==
    \/ MSetupTerminal \/ MDrawHeader \/ MDrawFooter \/ MShowWaiting
    \/ MSetRunning \/ MStartThread \/ MIdle
    \/ MFinallyRunning \/ MFinallyCleanup \/ MFinallyClose \/ MFinallyUnlink
    \/ MExit
ListenerProgress ==
    \/ LUnlink \/ LSocket \/ LBind \/ LListen \/ LWhileRunning \/ LWhileConn
    \/ LHandle \/ LDraw \/ LFlush

\* The session with both threads scheduled again and again.
FairSpec == Spec /\ WF_vars(MainProgress) /\ WF_vars(ListenerProgress)

(***************************************************************************)
(* Claims about the renderer, checked under RenderSpec.                    *)
(***************************************************************************)
LastPass == passes[Len(passes)]
PrevPass == passes[Len(passes) - 1]

\* A blank screen in managed mode, and the rows a stream of commands leaves
\* text on when it is printed to a blank screen.
BlankScreen == Feed(FreshTerminal, <<alternate_screen>>)
RowsWritten(out) ==
    {r \in 1..height : ~IsBlank(Feed(BlankScreen, out).grid[r])}

\* The rows of the hover section and of the references section.
HoverRegion == sections.hover_start .. (sections.definition - 1)
ReferencesRegion == sections.references .. (sections.footer - 1)

\* C1: after two snapshots are rendered in sequence, every row the first
\* one's hover or references rendering wrote and the second one's rendering
\* does not write is blank.
C1_NoStaleRows ==
    Len(passes) >= 2 =>
        \A r \in RowsWritten(UpdateHover(PrevPass) \o UpdateReferences(PrevPass))
                 \ RowsWritten(update_display(LastPass)) :
            IsBlank(term.grid[r])

\* The first cells of a line, written out without the slice of the model.
FirstCells(line, n) == [j \in 1..(IF Len(line) < n THEN Len(line) ELSE n) |-> line[j]]

\* A row that holds text at column 3 and nothing else.
AtColumn3(text) == <<" ", " ">> \o text

\* C7: the references title shows references_count when the snapshot has
\* one and the number of references otherwise, then "reference" for a
\* count of 1 and "references" for every other count.
C7_ReferencesTitle ==
    (Len(passes) >= 1 /\ LastPass.has_references) =>
        LET d == LastPass
            n == IF d.has_references_count THEN d.references_count
                 ELSE Len(d.references)
            word == IF n = 1 THEN <<"r", "e", "f", "e", "r", "e", "n", "c", "e">>
                    ELSE <<"r", "e", "f", "e", "r", "e", "n", "c", "e", "s">>
        IN  term.grid[sections.references]
              = RefTitleOpen \o IntToCells(n) \o <<" ">> \o word \o RefTitleClose

\* C7 witness: a title drawn for a count of 1 over five references.
C7_Witness ==
    /\ Len(passes) >= 1
    /\ LastPass.has_references /\ Len(LastPass.references) = 5
    /\ LastPass.has_references_count /\ LastPass.references_count = 1
    /\ term.grid[sections.references] = RefTitle(1)

\* A row of the references section that holds a "... and N more" line.
IsSummaryLine(line) ==
    /\ Len(line) >= 2 + Len(AndMoreOpen)
    /\ SubSeq(line, 1, 2 + Len(AndMoreOpen)) = AtColumn3(AndMoreOpen)

RefEntryLine(ref) == AtColumn3(Bullet \o ref.file \o <<":">> \o IntToCells(ref.line))

\* C8: with K = footer - references - 2, more than K references show as the
\* first K entries and one line "... and L-K more"; for L <= K all entries
\* show and the references region holds no summary line after the redraw.
C8_Truncation ==
    (Len(passes) >= 1 /\ LastPass.has_references) =>
        LET refs == LastPass.references
            L == Len(refs)
            K == sections.footer - sections.references - 2
            first == sections.references + 1
        IN  /\ \A i \in 1..(IF L < K THEN L ELSE K) :
                   term.grid[first + i - 1] = RefEntryLine(refs[i])
            /\ L > K => term.grid[first + K] = AtColumn3(AndMore(L - K))
            /\ L <= K => \A r \in ReferencesRegion : ~IsSummaryLine(term.grid[r])

\* The part of C8 that does not depend on what an earlier redraw left behind.
C8_EntriesAndSummary ==
    (Len(passes) >= 1 /\ LastPass.has_references) =>
        LET refs == LastPass.references
            L == Len(refs)
            K == sections.footer - sections.references - 2
            first == sections.references + 1
        IN  /\ \A i \in 1..(IF L < K THEN L ELSE K) :
                   term.grid[first + i - 1] = RefEntryLine(refs[i])
            /\ L > K => term.grid[first + K] = AtColumn3(AndMore(L - K))

\* C9: a drawn hover text shows its first definition - hover_start - 2 lines,
\* in order, one per row, each cut to its first width - 4 cells; the rows of
\* the section after the shown lines are blank, so no line continues on
\* another row.
C9_HoverLines ==
    (Len(passes) >= 1 /\ LastPass.has_hover /\ LastPass.hover # <<>>) =>
        LET h == LastPass.hover
            cap == sections.definition - sections.hover_start - 2
        IN  /\ term.grid[sections.hover_start] = HoverTitle
            /\ \A i \in 1..cap :
                  IF i <= Len(h)
                  THEN term.grid[sections.hover_start + i]
                         = AtColumn3(FirstCells(h[i], width - 4))
                  ELSE IsBlank(term.grid[sections.hover_start + i])
            /\ IsBlank(term.grid[sections.definition - 1])

\* C9 witness: a hover text of more lines than fit, with a line longer than
\* width - 4, shown cut.
C9_Witness ==
    /\ Len(passes) >= 1
    /\ LastPass.has_hover
    /\ Len(LastPass.hover) > sections.definition - sections.hover_start - 2
    /\ Len(LastPass.hover[3]) > width - 4
    /\ Len(term.grid[sections.hover_start + 3]) = width - 2

\* C10: after the redraw of a snapshot without hover data (no hover field,
\* or an empty one) every row from hover_start up to the definition row is
\* blank.
C10_HoverCleared ==
    (Len(passes) >= 1 /\ ~(LastPass.has_hover /\ LastPass.hover # <<>>)) =>
        \A r \in HoverRegion : IsBlank(term.grid[r])

\* C10 witness: a snapshot with an empty hover list rendered after one whose
\* hover text filled the section.
C10_Witness ==
    /\ Len(passes) >= 2
    /\ PrevPass.has_hover /\ Len(PrevPass.hover) >= 8
    /\ LastPass.has_hover /\ LastPass.hover = <<>>
    /\ \A r \in HoverRegion : IsBlank(term.grid[r])

\* The text of a definition: file:line:col.
FileLineCol(def) ==
    def.file \o <<":">> \o IntToCells(def.line) \o <<":">> \o IntToCells(def.col)

\* C11: a redraw of a snapshot without a definition (no field, or an empty
\* one) leaves the definition row as it was; a redraw of a snapshot with a
\* definition leaves on the row the label, then file:line:col, and nothing
\* after it.
C11_DefinitionRow ==
    [][LET d == current_data'
       IN  passes' # passes =>
             IF d.has_definition /\ d.definition.nonempty
             THEN term'.grid[sections.definition]
                    = DefinitionLabel \o FileLineCol(d.definition)
             ELSE term'.grid[sections.definition] = term.grid[sections.definition]]_vars

\* The same for definitions whose text fits the row after the label.
C11_FittingDefinition ==
    [][LET d == current_data'
       IN  (/\ passes' # passes
            /\ Len(DefinitionLabel \o FileLineCol(d.definition)) <= width) =>
             IF d.has_definition /\ d.definition.nonempty
             THEN term'.grid[sections.definition]
                    = DefinitionLabel \o FileLineCol(d.definition)
             ELSE term'.grid[sections.definition] = term.grid[sections.definition]]_vars

\* Printing out to the screen t changes no row outside rows.
WritesOnly(t, out, rows) ==
    \A r \in (1..height) \ rows : Feed(t, out).grid[r] = t.grid[r]

\* C19: on the screen a redraw finds, each region operation of the snapshot
\* being drawn changes rows of its own region only: the hover drawing or
\* hover clear rows hover_start .. definition - 1, draw_definition_info the
\* definition row, draw_references_info rows references .. footer - 1,
\* draw_file_info and draw_footer their own row.
C19_RegionWrites ==
    [][LET d == current_data'
       IN  passes' # passes =>
             /\ WritesOnly(term, UpdateHover(d), HoverRegion)
             /\ WritesOnly(term, UpdateDefinition(d), {sections.definition})
             /\ WritesOnly(term, UpdateReferences(d), ReferencesRegion)
             /\ WritesOnly(term, draw_file_info(d), {sections.file_info})
             /\ WritesOnly(term, draw_footer, {sections.footer})]_vars

\* The part of C19 about sequences of any length: hover and references,
\* and the footer.
C19_HoverAndReferences ==
    [][LET d == current_data'
       IN  passes' # passes =>
             /\ WritesOnly(term, UpdateHover(d), HoverRegion)
             /\ WritesOnly(term, UpdateReferences(d), ReferencesRegion)
             /\ WritesOnly(term, draw_footer, {sections.footer})]_vars

\* The row of the waiting message, and the row as startup leaves it.
WaitingRow == height \div 2
WaitingLine == Repeat(" ", ((width - 40) \div 2) - 1) \o WaitingText

\* C20: once a context_update has been rendered, the row of the waiting
\* message holds what that redraw alone puts on it (a hover line, or
\* nothing), and so no cell of the waiting message.
C20_WaitingMessageGone ==
    Len(passes) >= 1 =>
        /\ term.grid[WaitingRow]
             = Feed(BlankScreen, update_display(LastPass)).grid[WaitingRow]
        /\ \A c \in 1..Len(WaitingText) :
              LET col == c + Len(WaitingLine) - Len(WaitingText)
                  h == LastPass.hover
                  k == WaitingRow - sections.hover_start
              IN  \/ Len(term.grid[WaitingRow]) < col
                  \/ /\ Len(h) >= k /\ Len(h[k]) >= col - 2
                     /\ term.grid[WaitingRow][col] = h[k][col - 2]

\* C20 witness: the first update, with a hover text of one line, has erased
\* the row on which startup had drawn the waiting message.
C20_Witness ==
    /\ Len(passes) = 1
    /\ LastPass.has_hover /\ Len(LastPass.hover) = 1
    /\ StartupTerminal.grid[WaitingRow] = WaitingLine
    /\ IsBlank(term.grid[WaitingRow])

(***************************************************************************)
(* Claims about the session, checked under Spec.                           *)
(***************************************************************************)
Finished == mpc \in {"returned", "exited"}

\* C2: cleanup_terminal in the finally block of run() leaves the cursor
\* shown, the normal screen buffer restored and the styling reset, and from
\* then on, through every exit of run(), the terminal is never in managed
\* mode again.
C2_TerminalRestored ==
    /\ [][(mpc = "finally_cleanup" /\ mpc' # mpc) =>
            (/\ mpc' = "finally_close"
             /\ ~term'.alt /\ ~term'.cursor_hidden /\ term'.sgr = "default")]_vars
    /\ [](mpc \in {"finally_close", "finally_unlink", "returned", "exited"}
            => (~term.alt /\ ~term.cursor_hidden))
    /\ [](mpc = "exited" => exit_code # "none")

\* C2 witness: the process has exited with code 1 after an exception that
\* followed the drawing of the header, and the terminal is restored.
C2_Witness ==
    /\ mpc = "exited" /\ exit_code = "1"
    /\ ~IsBlank(term.grid[sections.header])
    /\ ~term.alt /\ ~term.cursor_hidden

\* C3: once the finally block of run() has finished, the listening socket
\* is closed and no file exists at socket_path.
C3_EndpointReleased ==
    Finished => (socket \in {"None", "closed"} /\ ~path_exists)

\* A chunk that is a context_update message, and the data it carries.
IsContextUpdate(c) ==
    c.kind = "json" /\ c.is_object /\ c.has_type /\ c.type = "context_update"
MessageData(c) == IF c.has_data THEN c.data ELSE EmptySnapshot

\* The data of the context_update messages among the chunks received.
UpdatesReceived ==
    LET u == SelectSeq(received, IsContextUpdate)
    IN  [i \in 1..Len(u) |-> MessageData(u[i])]

RECURSIVE RenderAll(_)
RenderAll(ds) ==
    IF ds = <<>> THEN <<>> ELSE update_display(Head(ds)) \o RenderAll(Tail(ds))

\* The listener is between two messages of an open connection, and the
\* control thread has not begun teardown.
BetweenMessages == mpc = "idle" /\ lpc \in {"while_conn", "recv"} /\ conn = "open"

C5_OtherTypesIgnored ==
    [][(/\ lpc = "handle"
        /\ chunk.kind = "json" /\ chunk.is_object
        /\ ~(chunk.has_type /\ chunk.type = "context_update")
        /\ lpc' # lpc) =>
          (/\ lpc' = "while_conn"
           /\ conn' = "open"
           /\ current_data' = current_data
           /\ term' = term /\ stdout' = stdout
           /\ passes' = passes)]_vars

\* C5 witness: a message without a type was handled on a connection that
\* has rendered a snapshot, and the listener reads on.
C5_Witness ==
    /\ BetweenMessages
    /\ Len(received) = 2
    /\ received[1] = ContextUpdate(SnapshotA)
    /\ received[2].kind = "json" /\ received[2].is_object /\ ~received[2].has_type
    /\ chunk = NoChunk
    /\ current_data = SnapshotA
    /\ passes = <<SnapshotA>>

\* C6: the completed passes are, in order, the data of the context_update
\* messages received, at most the latest of which is still being rendered;
\* between messages every one of them has had its pass, the held snapshot is
\* the data of the latest, and the screen is what the passes draw, each with
\* its own message's data.
C6_OnePassPerUpdate ==
    LET ups == UpdatesReceived
    IN  /\ Len(passes) <= Len(ups)
        /\ \A i \in 1..Len(passes) : passes[i] = ups[i]
        /\ Len(ups) - Len(passes) <= 1
        /\ lpc \in {"while_conn", "recv"} =>
              /\ passes = ups
              /\ current_data = IF ups = <<>> THEN EmptySnapshot ELSE ups[Len(ups)]
        /\ BetweenMessages => term = Feed(StartupTerminal, RenderAll(passes))

\* C6 witness: two context_update messages rendered in order, the second
\* without the hover text of the first.
C6_Witness ==
    /\ BetweenMessages
    /\ passes = <<SnapshotA, SnapshotB>>
    /\ current_data = SnapshotB
    /\ term = Feed(StartupTerminal, update_display(SnapshotA) \o update_display(SnapshotB))

\* The regions of the screen in the order of their rows, and the region a
\* row lies in: each region runs from its start row up to the next one's.
RegionStarts ==
    <<sections.header, sections.file_info, sections.hover_start,
      sections.definition, sections.references, sections.footer>>
RegionOf(row) ==
    CHOOSE k \in 1..Len(RegionStarts) :
        /\ RegionStarts[k] <= row
        /\ k < Len(RegionStarts) => row < RegionStarts[k + 1]

\* The regions a stream of commands addresses.
RegionsAddressed(out) ==
    {RegionOf(out[i].row) : i \in {j \in 1..Len(out) : out[j].op = "cursor_to"}}

\* A stream of commands that is one update in the order of the protocol:
\* it opens with save_cursor and closes with restore_cursor, holds no other
\* of the two, addresses a region before it writes, and never addresses a
\* region after one that comes later on the screen.
InProtocolOrder(out) ==
    /\ Len(out) >= 3
    /\ out[1] = save_cursor /\ out[Len(out)] = restore_cursor
    /\ \A i \in 2..(Len(out) - 1) : out[i].op \notin {"save_cursor", "restore_cursor"}
    /\ out[2].op = "cursor_to"
    /\ \A i, j \in 2..(Len(out) - 1) :
          (i < j /\ out[i].op = "cursor_to" /\ out[j].op = "cursor_to")
            => RegionOf(out[i].row) <= RegionOf(out[j].row)

\* C14: what an update has printed when it reaches its flush is in the
\* order save cursor, header, file info, hover, definition, references,
\* footer, restore cursor; header, file info, hover and footer are always
\* there, the definition when the snapshot holds a non-empty one, the
\* references when it has the field; and nothing of an update reaches the
\* terminal before its flush.
C14_UpdateOrder ==
    /\ []((lpc = "flush" /\ mpc = "idle") =>
            /\ InProtocolOrder(stdout)
            /\ RegionsAddressed(stdout)
                 = {1, 2, 3, 6}
                   \cup (IF current_data.has_definition /\ current_data.definition.nonempty
                         THEN {4} ELSE {})
                   \cup (IF current_data.has_references THEN {5} ELSE {}))
    /\ [][(lpc \in {"save_cursor", "draw_header", "draw_file_info", "hover",
                    "definition", "references", "draw_footer", "restore_cursor"}
            /\ lpc' # lpc) => term' = term]_vars

\* C14 witness: an update of a snapshot without hover and without definition
\* is at its flush, with everything it printed in order.
C14_Witness ==
    /\ lpc = "flush" /\ mpc = "idle"
    /\ current_data = SnapshotB
    /\ InProtocolOrder(stdout)
    /\ RegionsAddressed(stdout) = {1, 2, 3, 5, 6}

\* The listener is inside a redraw: it has printed save_cursor and has not
\* finished the flush.
InRedraw ==
    lpc \in {"draw_header", "draw_file_info", "hover", "definition",
             "references", "draw_footer", "restore_cursor", "flush"}

\* C15: the control thread writes to the terminal (cleanup_terminal, in
\* teardown) only when the listener is not inside a redraw, and nothing a
\* redraw prints reaches the terminal once teardown has restored the normal
\* screen.
C15_RedrawNotPreempted ==
    /\ [][(mpc = "finally_cleanup" /\ mpc' # mpc) => ~InRedraw]_vars
    /\ [](~term.normal_dirty)

\* The second half alone: text of a redraw on the user's own screen.
C15_NoWriteAfterRestore == ~term.normal_dirty

\* The listener is handling a chunk: decoding it, or inside the redraw the
\* chunk asked for.
HandlingChunk == lpc = "handle" \/ lpc = "save_cursor" \/ InRedraw

\* C16: whatever chunk was received, the step that handles it leaves the
\* listener thread running with its connection open: it goes on with the
\* redraw or back to reading, and never ends the thread.
C16_DecodeErrorsContained ==
    [][(HandlingChunk /\ lpc' # lpc) =>
          (/\ lpc' # "crashed"
           /\ lpc' \in {"while_conn"} \cup {UpdateSteps[i] : i \in 1..Len(UpdateSteps)}
           /\ conn' = "open")]_vars

\* C17: an empty read closes the connection and changes nothing else: the
\* running flag, the held snapshot, the screen and what is waiting to be
\* printed stay as they were, and the listener is back at the head of its
\* accept loop, from where, the session running, it goes to accept again;
\* the connection of one accept cycle is closed before the next accept, so
\* no two connections are ever read.
C17_PeerCloseEndsCycle ==
    /\ [][received' = Append(received, EmptyChunk) =>
            (/\ conn = "open" /\ conn' = "closed"
             /\ lpc' = "while_running"
             /\ running' = running
             /\ current_data' = current_data
             /\ term' = term /\ stdout' = stdout /\ passes' = passes)]_vars
    /\ [][(lpc = "while_running" /\ running /\ lpc' # lpc) => lpc' = "accept"]_vars
    /\ [](lpc \in {"while_running", "accept"} => conn # "open")

\* C17 witness: the first connection was closed by its peer and a
\* context_update of the next connection is on the screen.
C17_Witness ==
    /\ BetweenMessages
    /\ received = <<EmptyChunk, ContextUpdate(SnapshotA)>>
    /\ running
    /\ passes = <<SnapshotA>>
    /\ term = Feed(StartupTerminal, update_display(SnapshotA))

\* C18: the layout is what construction set; its region rows, in the order
\* header, file_info, hover_start, definition, references, footer, are
\* strictly increasing and lie in 1..height, the footer on row height - 1;
\* and no step of either thread changes width, height or a region row.
C18_LayoutFixed ==
    /\ [](LET s == layout.sections
              rows == <<s.header, s.file_info, s.hover_start, s.definition,
                        s.references, s.footer>>
          IN  /\ \A i \in 1..5 : rows[i] < rows[i + 1]
              /\ \A i \in 1..6 : 1 <= rows[i] /\ rows[i] <= layout.height
              /\ s.footer = layout.height - 1)
    /\ [](layout = Layout)
    /\ [][layout' = layout]_vars

\* C18 witness: the session has drawn, redrawn a snapshot and gone through
\* teardown to its exit, and the layout is the one of construction.
C18_Witness ==
    /\ mpc = "exited"
    /\ passes # <<>>
    /\ layout.width = 80 /\ layout.height = 25
    /\ layout.sections.hover_start = 5 /\ layout.sections.footer = 24

(***************************************************************************)
(* Claims about what the session eventually does, checked under FairSpec.  *)
(***************************************************************************)
\* bind has raised while the session is running: the address could not be
\* bound.
SetupFailed == lpc = "crashed" /\ socket = "open" /\ mpc = "idle" /\ running

\* The user has interrupted the idle loop.
Interrupted == mpc \notin TrySteps /\ pending = "none"

\* C12: when the channel address cannot be bound, the session does not stay
\* in its running state: unless the user interrupts it first, the process
\* goes through teardown and exits with code 1.
C12_SetupFailureFatal ==
    SetupFailed ~> ((mpc = "exited" /\ exit_code = "1") \/ Interrupted)

\* The listener loop has ended while the session is running: accept or recv
\* raised OSError (line 322).
ListenerEnded == lpc = "returned" /\ running

\* C13: when accept or recv fails while the session is running, the listener
\* loop ends, and the control thread then reaches the end of teardown with
\* the terminal restored and the channel released.
C13_TeardownAfterTransportError ==
    ListenerEnded ~>
        (/\ Finished
         /\ ~term.alt /\ ~term.cursor_hidden
         /\ socket = "closed" /\ ~path_exists)

=============================================================================
